---------------------------- MODULE Spec2Model ----------------------------
(***************************************************************************)
(* Distance Vector Routing over a simulated network of routers (dvr.py).   *)
(*                                                                         *)
(* Threads of the program: the main thread, which builds the Network and   *)
(* runs dvr_start on every Router in turn, and one thread per Link.send,   *)
(* which sleeps and then runs the destination's receive.  A Router's _dv   *)
(* is a Python dict: insertion-ordered, modelled as a sequence of entries. *)
(* A Datagram holds a REFERENCE to the sender's dict (line 83 passes       *)
(* self._dv itself), so the model keeps, per datagram, the index of the    *)
(* Router whose dict it points at; receive reads that dict live.           *)
(***************************************************************************)
EXTENDS Integers, Sequences, FiniteSets, Bags, TLC

VARIABLES
    names,      \* Network._nodes[i]._name
    links,      \* Network._nodes[i]._links : sequence of [cost, dest]
    dv,         \* Network._nodes[i]._dv    : sequence of [node, cost, hop]
    lock,       \* owner of Network._nodes[i]._dv_cond : "free", "main", "recv"
    main,       \* the main thread: [i, pc] inside Network.dvr_start; with the
                \* arguments node_names, costs where Network(...) is followed
    inflight,   \* per destination Router: bag of datagrams whose thread sleeps
                \* in Link._send or is blocked entering receive's with-block
    waiting,    \* per Router: bag of datagrams whose thread is in _dv_cond.wait()
    rcv,        \* per Router: the receive invocation that owns its lock
    log,        \* per Router: the log_dv calls it made, oldest first
    sent,       \* per Router and outgoing link: the link.send calls made so far
    errors      \* per Router: exceptions that ended one of its receive threads

vars == <<names, links, dv, lock, main, inflight, waiting, rcv, log, sent, errors>>

-----------------------------------------------------------------------------
(* Bounds of the model *)

\* a link of the generated topologies costs 1 or MaxCost
MaxCost == 3

-----------------------------------------------------------------------------
(* Values *)

\* Python's None, as next hop of the self entry
None == "None"

\* an absent cost in the costs list (None), and a present one
NoCost == <<>>
Cost(c) == <<c>>

\* `if cost:` : None and 0 are both falsy
Truthy(c) == c /= NoCost /\ c[1] /= 0

-----------------------------------------------------------------------------
(* DistanceVector: dict[str, tuple[int, str | None]], insertion-ordered *)

Keys(t) == {t[i].node : i \in 1..Len(t)}

\* node_name in dv
Has(t, n) == n \in Keys(t)

\* position of key n in the dict's entry order
Pos(t, n) == CHOOSE i \in 1..Len(t) : t[i].node = n

\* dv[n]
Get(t, n) == t[Pos(t, n)]

\* dv[n] = (c, h): an existing key keeps its place, a new key is appended
Put(t, n, c, h) ==
    IF Has(t, n)
    THEN [t EXCEPT ![Pos(t, n)] = [node |-> n, cost |-> c, hop |-> h]]
    ELSE Append(t, [node |-> n, cost |-> c, hop |-> h])

-----------------------------------------------------------------------------
(* Network.__init__ *)

\* itertools.combinations(range(n), 2), in its lexicographic order
RECURSIVE CombFrom(_, _, _)
CombFrom(i, j, n) ==
    IF i >= n THEN <<>>
    ELSE IF j > n THEN CombFrom(i + 1, i + 2, n)
    ELSE <<<<i, j>>>> \o CombFrom(i, j + 1, n)

Combinations(n) == CombFrom(1, 2, n)

\* zip(combinations, costs): stops at the shorter of the two
Zip(p, c) ==
    [k \in 1..(IF Len(p) < Len(c) THEN Len(p) ELSE Len(c)) |-> <<p[k], c[k]>>]

\* a faulty variant of Connect: the Link back from b to a left out
ConnectOneWay(ls, a, b, cost) ==
    [ls EXCEPT ![a] = Append(@, [cost |-> cost, dest |-> b])]

\* Network._connect(a, b, cost): one Link appended to each Router
Connect(ls, a, b, cost) ==
    [ls EXCEPT ![a] = Append(@, [cost |-> cost, dest |-> b]),
               ![b] = Append(@, [cost |-> cost, dest |-> a])]

\* the loop of Network.__init__ over the zipped pairs
RECURSIVE BuildLinks(_, _, _)
BuildLinks(ls, z, k) ==
    IF k > Len(z) THEN ls
    ELSE BuildLinks(IF Truthy(z[k][2])
                    THEN Connect(ls, z[k][1][1], z[k][1][2], z[k][2][1])
                    ELSE ls,
                    z, k + 1)

\* Network(node_names, costs)._nodes[i]._links
Network(node_names, costs) ==
    BuildLinks([i \in 1..Len(node_names) |-> <<>>],
               Zip(Combinations(Len(node_names)), costs), 1)

-----------------------------------------------------------------------------
(* Link *)

\* Link.get_info
GetInfo(link) == <<link.cost, names[link.dest]>>

-----------------------------------------------------------------------------
(* Router *)

Routers == 1..Len(names)

\* What the thread started by links[i][k].send(data) holds: the Datagram of
\* line 83, which is the sender's name and a REFERENCE to the sender's dict
\* (ref: the index of the Router that owns the dict), and the seconds its
\* time.sleep of line 44 has still to run.  snap is a history field, not
\* program state: the contents the dict had when link.send was called.
Datagram(i, k) ==
    [sender |-> names[i], ref |-> i, snap |-> dv[i], sleep |-> links[i][k].cost]

\* a faulty variant of FindNeighbors: no neighbour is entered
FindNeighborsNone(t, ls, k) == t

\* Router._find_neighbors: the loop over self._links, from link k on
RECURSIVE FindNeighbors(_, _, _)
FindNeighbors(t, ls, k) ==
    IF k > Len(ls) THEN t
    ELSE FindNeighbors(Put(t, GetInfo(ls[k])[2], GetInfo(ls[k])[1], GetInfo(ls[k])[2]),
                       ls, k + 1)

\* a faulty variant of BroadcastDv: every send starts two delivery threads
RECURSIVE BroadcastDvTwice(_, _, _)
BroadcastDvTwice(fl, i, k) ==
    IF k > Len(links[i]) THEN fl
    ELSE BroadcastDvTwice([fl EXCEPT ![links[i][k].dest] =
                              @ (+) SetToBag({Datagram(i, k)}) (+) SetToBag({Datagram(i, k)})],
                          i, k + 1)

\* Router._broadcast_dv: link.send on every link, from link k on; each send
\* starts a thread that will call the destination's receive (Link.send)
RECURSIVE BroadcastDv(_, _, _)
BroadcastDv(fl, i, k) ==
    IF k > Len(links[i]) THEN fl
    ELSE BroadcastDv([fl EXCEPT ![links[i][k].dest] = @ (+) SetToBag({Datagram(i, k)})],
                     i, k + 1)

\* the count of link.send calls after Router i has run _broadcast_dv once more
Sends(i) == [sent EXCEPT ![i] = [k \in 1..Len(links[i]) |-> @[k] + 1]]

\* a faulty variant of Acquirable: the with-block entered without the lock
AcquirableAlways(r) == TRUE

\* `with self._dv_cond:` can be entered (lines 64 and 87): no other thread
\* owns the Condition's lock
Acquirable(r) == lock[r] = "free"

\* the test of receive's wait loop (line 89), negated
Initialized(r) == Has(dv[r], names[r])

\* faulty variants of Improves: no test at all, the comparison reversed, and
\* <= written for <
ImprovesAlways(t, n, c) == TRUE

ImprovesIfDearer(t, n, c) == ~Has(t, n) \/ c > Get(t, n).cost

ImprovesOrTies(t, n, c) == ~Has(t, n) \/ c <= Get(t, n).cost

\* the relaxation test of line 100
Improves(t, n, c) == ~Has(t, n) \/ c < Get(t, n).cost

Idle == [pc |-> "idle"]

-----------------------------------------------------------------------------
(* Network.dvr_start: the main thread runs Router.dvr_start on each node *)

\* lines 64-67: enter the with-block, insert the self entry, log
StartEnter ==
    /\ main.pc = "enter"
    /\ Acquirable(main.i)
    /\ lock' = [lock EXCEPT ![main.i] = "main"]
    /\ dv' = [dv EXCEPT ![main.i] = Put(@, names[main.i], 0, None)]
    /\ log' = [log EXCEPT ![main.i] = Append(@, "dvr_start")]
    /\ main' = [main EXCEPT !.pc = "neighbors"]
    /\ UNCHANGED <<names, links, inflight, waiting, rcv, sent, errors>>

\* line 69
StartNeighbors ==
    /\ main.pc = "neighbors"
    /\ dv' = [dv EXCEPT ![main.i] = FindNeighbors(@, links[main.i], 1)]
    /\ main' = [main EXCEPT !.pc = "broadcast"]
    /\ UNCHANGED <<names, links, lock, inflight, waiting, rcv, log, sent, errors>>

\* line 71
StartBroadcast ==
    /\ main.pc = "broadcast"
    /\ inflight' = BroadcastDv(inflight, main.i, 1)
    /\ sent' = Sends(main.i)
    /\ main' = [main EXCEPT !.pc = "notify"]
    /\ UNCHANGED <<names, links, dv, lock, waiting, rcv, log, errors>>

\* a faulty variant of StartNotify: notify_all left out
StartNotifyNoWake ==
    /\ main.pc = "notify"
    /\ lock' = [lock EXCEPT ![main.i] = "free"]
    /\ main' = IF main.i < Len(names)
               THEN [i |-> main.i + 1, pc |-> "enter"]
               ELSE [i |-> main.i, pc |-> "done"]
    /\ UNCHANGED <<names, links, dv, inflight, waiting, rcv, log, sent, errors>>

\* line 73 and the end of the with-block: the woken threads leave wait() and
\* compete for the lock again; the loop of Network.dvr_start moves on
StartNotify ==
    /\ main.pc = "notify"
    /\ inflight' = [inflight EXCEPT ![main.i] = @ (+) waiting[main.i]]
    /\ waiting' = [waiting EXCEPT ![main.i] = EmptyBag]
    /\ lock' = [lock EXCEPT ![main.i] = "free"]
    /\ main' = IF main.i < Len(names)
               THEN [i |-> main.i + 1, pc |-> "enter"]
               ELSE [i |-> main.i, pc |-> "done"]
    /\ UNCHANGED <<names, links, dv, rcv, log, sent, errors>>

-----------------------------------------------------------------------------
(* Router.receive, run by the thread of one Link.send *)

\* lines 87-96 up to the creation of the dict iterator, for the thread that
\* carries datagram d: take the lock; wait if the self entry is missing (wait()
\* gives the lock back); else read link_cost (KeyError if the sender is
\* unknown) and start iterating the received dict, whose size the iterator
\* remembers
Arrive(r, d) ==
    /\ Acquirable(r)
    /\ inflight' = [inflight EXCEPT ![r] = @ (-) SetToBag({d})]
    /\ IF ~Initialized(r)
       THEN /\ waiting' = [waiting EXCEPT ![r] = @ (+) SetToBag({d})]
            /\ UNCHANGED <<lock, rcv, errors>>
       ELSE /\ UNCHANGED waiting
            /\ IF ~Has(dv[r], d.sender)
               THEN /\ errors' = [errors EXCEPT ![r] = @ \cup {"KeyError"}]
                    /\ UNCHANGED <<lock, rcv>>
               ELSE /\ lock' = [lock EXCEPT ![r] = "recv"]
                    /\ rcv' = [rcv EXCEPT ![r] =
                          [pc |-> "loop", data |-> d,
                           link_cost |-> Get(dv[r], d.sender).cost,
                           changed |-> FALSE,
                           used |-> Len(dv[d.ref]), idx |-> 0]]
                    /\ UNCHANGED errors
    /\ UNCHANGED <<names, links, dv, main, log, sent>>

\* Link._send then receive, when nothing is assumed about how long threads
\* take: the sleep only delays, so a datagram may arrive at any later moment
ReceiveEnter(r) == \E d \in BagToSet(inflight[r]) : Arrive(r, d)

\* the received dict as the running receive of r sees it now: the sender's
\* own dict, read through the reference the datagram carries
ReceivedDv(r) == dv[rcv[r].data.ref]

\* next() on the dict iterator raises RuntimeError when the dict's size is not
\* the size it had when the iterator was made ("changed size during iteration")
Raises(r) == Len(ReceivedDv(r)) /= rcv[r].used

\* the iterator has entries left
HasItem(r) == rcv[r].idx < Len(ReceivedDv(r))

\* the entry the next iteration unpacks into node_name, (cost, next_hop)
Item(r) == ReceivedDv(r)[rcv[r].idx + 1]

\* a faulty variant of Relax: the cost of the way to the sender left out
RelaxNoLinkCost(t, link_cost, node_name, cost, sender) ==
    IF Improves(t, node_name, cost)
    THEN Put(t, node_name, cost, sender)
    ELSE t

\* a faulty variant of Relax: the destination recorded as next hop
RelaxHopIsDestination(t, link_cost, node_name, cost, sender) ==
    IF Improves(t, node_name, link_cost + cost)
    THEN Put(t, node_name, link_cost + cost, node_name)
    ELSE t

\* lines 100-101 for one entry: the table after the iteration
Relax(t, link_cost, node_name, cost, sender) ==
    IF Improves(t, node_name, link_cost + cost)
    THEN Put(t, node_name, link_cost + cost, sender)
    ELSE t

\* One turn of the for loop of line 96, from the iterator's next() on:
\*  - RuntimeError: the exception leaves the with-block and ends the thread;
\*  - an entry: lines 100-102 on it;
\*  - no entry left: lines 104-106 and the end of the with-block.
ReceiveNext(r) ==
    /\ rcv[r].pc = "loop"
    /\ IF Raises(r)
       THEN /\ errors' = [errors EXCEPT ![r] = @ \cup {"RuntimeError"}]
            /\ rcv' = [rcv EXCEPT ![r] = Idle]
            /\ lock' = [lock EXCEPT ![r] = "free"]
            /\ UNCHANGED <<dv, inflight, log, sent>>
       ELSE IF HasItem(r)
       THEN /\ dv' = [dv EXCEPT ![r] = Relax(@, rcv[r].link_cost, Item(r).node,
                                             Item(r).cost, rcv[r].data.sender)]
            /\ rcv' = [rcv EXCEPT ![r].idx = @ + 1,
                                  ![r].changed = @ \/ Improves(dv[r], Item(r).node,
                                                     rcv[r].link_cost + Item(r).cost)]
            /\ UNCHANGED <<errors, lock, inflight, log, sent>>
       ELSE /\ IF rcv[r].changed
               THEN /\ log' = [log EXCEPT ![r] = Append(@, "receive")]
                    /\ inflight' = BroadcastDv(inflight, r, 1)
                    /\ sent' = Sends(r)
               ELSE UNCHANGED <<log, inflight, sent>>
            /\ rcv' = [rcv EXCEPT ![r] = Idle]
            /\ lock' = [lock EXCEPT ![r] = "free"]
            /\ UNCHANGED <<dv, errors>>
    /\ UNCHANGED <<names, links, main, waiting>>

-----------------------------------------------------------------------------
(* the program *)

\* the state once Network(node_names, costs) is built, before dvr_start
Built(node_names, costs) ==
    /\ names = node_names
    /\ links = Network(node_names, costs)
    /\ dv = [i \in 1..Len(node_names) |-> <<>>]
    /\ lock = [i \in 1..Len(node_names) |-> "free"]
    /\ main = [i |-> 1, pc |-> "enter"]
    /\ inflight = [i \in 1..Len(node_names) |-> EmptyBag]
    /\ waiting = [i \in 1..Len(node_names) |-> EmptyBag]
    /\ rcv = [i \in 1..Len(node_names) |-> Idle]
    /\ log = [i \in 1..Len(node_names) |-> <<>>]
    /\ sent = [i \in 1..Len(node_names) |->
                [k \in 1..Len(Network(node_names, costs)[i]) |-> 0]]
    /\ errors = [i \in 1..Len(node_names) |-> {}]

\* every network of three Routers whose links cost 1 or MaxCost
Init ==
    \E costs \in [1..3 -> {NoCost, Cost(1), Cost(MaxCost)}] :
        Built(<<"A", "B", "C">>, costs)

Next ==
    \/ StartEnter
    \/ StartNeighbors
    \/ StartBroadcast
    \/ StartNotify
    \/ \E r \in Routers : ReceiveEnter(r)
    \/ \E r \in Routers : ReceiveNext(r)

Spec == Init /\ [][Next]_vars

-----------------------------------------------------------------------------
(* The runs in which threads keep up with the clock: a step of a thread     *)
(* takes no time next to the second that is the unit of time.sleep, so the  *)
(* clock moves only when no thread can run.  These are runs of Spec too:    *)
(* Spec never reads the sleep field, which is all that Tick changes.        *)

\* some thread can take a step now
Runnable ==
    \/ main.pc /= "done"
    \/ \E r \in Routers : rcv[r] /= Idle
    \/ \E r \in Routers : \E d \in BagToSet(inflight[r]) : d.sleep = 0

\* one second passes for every thread inside time.sleep (line 44)
Tick ==
    /\ ~Runnable
    /\ \E r \in Routers : inflight[r] /= EmptyBag
    /\ inflight' = [r \in Routers |->
                      BagOfAll(LAMBDA d : [d EXCEPT !.sleep = @ - 1], inflight[r])]
    /\ UNCHANGED <<names, links, dv, lock, main, waiting, rcv, log, sent, errors>>

\* Link._send then receive, for a thread whose sleep is over
ReceiveDue(r) == \E d \in BagToSet(inflight[r]) : d.sleep = 0 /\ Arrive(r, d)

TimelyNext ==
    \/ StartEnter
    \/ StartNeighbors
    \/ StartBroadcast
    \/ StartNotify
    \/ \E r \in Routers : ReceiveDue(r)
    \/ \E r \in Routers : ReceiveNext(r)
    \/ Tick

\* the example run of lines 155-158
ExampleInit ==
    Built(<<"A", "B", "C", "D", "E">>,
          <<Cost(1), Cost(6), NoCost, NoCost, Cost(2), Cost(1), NoCost,
            Cost(3), Cost(7), Cost(2)>>)

\* four Routers in a line A-B-C-D whose link costs, at most MaxCost, grow
\* along the line
LineInit ==
    \E a \in 1..MaxCost : \E b \in (a + 1)..MaxCost : \E c \in (b + 1)..MaxCost :
        Built(<<"A", "B", "C", "D">>,
              <<Cost(a), NoCost, NoCost, Cost(b), NoCost, Cost(c)>>)

LineSpec == LineInit /\ [][TimelyNext]_vars

-----------------------------------------------------------------------------
(* The runs in which, besides, no two receive calls overlap: a receive that *)
(* has taken its Router's lock runs to its end before any other thread      *)
(* enters receive, as when the interpreter does not switch threads inside   *)
(* the short loop of lines 96-102.                                          *)

ReceiveAlone(r) == (\A q \in Routers : rcv[q] = Idle) /\ ReceiveDue(r)

SerialNext ==
    \/ StartEnter
    \/ StartNeighbors
    \/ StartBroadcast
    \/ StartNotify
    \/ \E r \in Routers : ReceiveAlone(r)
    \/ \E r \in Routers : ReceiveNext(r)
    \/ Tick

ExampleSpec == ExampleInit /\ [][SerialNext]_vars

\* a network with a detour: the Link B-C costs 3 but B reaches C through A
\* for 2; E lies behind C and D
DetourInit ==
    Built(<<"A", "B", "C", "D", "E">>,
          <<Cost(1), Cost(1), NoCost, NoCost, Cost(3), NoCost, NoCost,
            Cost(2), NoCost, Cost(1)>>)

DetourSpec == DetourInit /\ [][SerialNext]_vars

-----------------------------------------------------------------------------
(* Two Routers joined by one full-duplex connection of cost 5, under any    *)
(* scheduling and whatever the two identifiers are                          *)

PairInit ==
    \E a \in {"A", "B", "C"} : \E b \in {"A", "B", "C"} \ {a} :
        Built(<<a, b>>, <<Cost(5)>>)

PairSpec == PairInit /\ [][Next]_vars

\* the scheduler lets every thread that can run take its next step
FairSpec == Spec /\ WF_vars(Next)


-----------------------------------------------------------------------------
(* The constructor on its own: the main thread is about to evaluate         *)
(* Network(node_names, costs), for argument lists of every shape, the       *)
(* malformed ones included.                                                 *)

\* the longest node list and the longest cost list tried
MaxNodes == 3
MaxCosts == 4

NodeLists == UNION {[1..n -> {"A", "B", "C"}] : n \in 2..MaxNodes}

CostLists ==
    UNION {[1..n -> {NoCost, Cost(-1), Cost(0), Cost(1), Cost(MaxCost)}] :
              n \in 0..MaxCosts}

\* nothing is built yet; the main thread holds the two arguments
Unbuilt(node_names, costs) ==
    /\ main = [i |-> 0, pc |-> "init", node_names |-> node_names, costs |-> costs]
    /\ names = <<>>
    /\ links = <<>>
    /\ dv = <<>>
    /\ lock = <<>>
    /\ inflight = <<>>
    /\ waiting = <<>>
    /\ rcv = <<>>
    /\ log = <<>>
    /\ sent = <<>>
    /\ errors = <<>>

\* Network.__init__ (lines 115-119) with Router.__init__ (lines 53-57) for
\* every name: no test of the arguments is made, nothing is raised
NetworkInit ==
    /\ main.pc = "init"
    /\ names' = main.node_names
    /\ links' = Network(main.node_names, main.costs)
    /\ dv' = [i \in 1..Len(main.node_names) |-> <<>>]
    /\ lock' = [i \in 1..Len(main.node_names) |-> "free"]
    /\ inflight' = [i \in 1..Len(main.node_names) |-> EmptyBag]
    /\ waiting' = [i \in 1..Len(main.node_names) |-> EmptyBag]
    /\ rcv' = [i \in 1..Len(main.node_names) |-> Idle]
    /\ log' = [i \in 1..Len(main.node_names) |-> <<>>]
    /\ sent' = [i \in 1..Len(main.node_names) |->
                 [k \in 1..Len(Network(main.node_names, main.costs)[i]) |-> 0]]
    /\ errors' = [i \in 1..Len(main.node_names) |-> {}]
    /\ main' = [main EXCEPT !.i = 1, !.pc = "enter"]

BuildInit ==
    \E node_names \in NodeLists : \E costs \in CostLists : Unbuilt(node_names, costs)

BuildNext == NetworkInit

BuildSpec == BuildInit /\ [][BuildNext]_vars

-----------------------------------------------------------------------------
(* The static weighted graph and its shortest paths, computed offline *)

\* cost of the direct link from i to j, as Network built it
HasLink(i, j) == \E k \in 1..Len(links[i]) : links[i][k].dest = j
LinkCost(i, j) == links[i][CHOOSE k \in 1..Len(links[i]) : links[i][k].dest = j].cost

RECURSIVE SumCosts(_, _)
SumCosts(ls, k) == IF k > Len(ls) THEN 0 ELSE ls[k].cost + SumCosts(ls, k + 1)

RECURSIVE SumAll(_)
SumAll(i) == IF i > Len(names) THEN 0 ELSE SumCosts(links[i], 1) + SumAll(i + 1)

\* larger than the cost of any simple path
Infinity == SumAll(1) + 1

Min(a, b) == IF a < b THEN a ELSE b

\* Floyd-Warshall: cheapest i-j path whose inner nodes are all among 1..k
RECURSIVE Path(_, _, _)
Path(k, i, j) ==
    IF k = 0
    THEN IF i = j THEN 0 ELSE IF HasLink(i, j) THEN LinkCost(i, j) ELSE Infinity
    ELSE Min(Path(k - 1, i, j), Path(k - 1, i, k) + Path(k - 1, k, j))

ShortestCost(i, j) == Path(Len(names), i, j)
Reachable(i, j) == ShortestCost(i, j) < Infinity

\* the same shortest costs as one table, for the properties that need them in
\* every state: Floyd-Warshall on the whole matrix.  Each matrix is bound as a
\* value (D \in {...}) so that it is computed once.
Direct(infinity) ==
    [i \in Routers |-> [j \in Routers |->
        IF i = j THEN 0 ELSE IF HasLink(i, j) THEN LinkCost(i, j) ELSE infinity]]

\* inner node k allowed besides those the matrix D allows
Through(D, k) ==
    [i \in Routers |-> [j \in Routers |-> Min(D[i][j], D[i][k] + D[k][j])]]

RECURSIVE Paths(_)
Paths(k) ==
    IF k = 0
    THEN CHOOSE T \in {Direct(infinity) : infinity \in {Infinity}} : TRUE
    ELSE CHOOSE T \in {Through(D, k) : D \in {Paths(k - 1)}} : TRUE

ShortestCosts == Paths(Len(names))

\* no thread is left: dvr_start is over, nothing in flight, no receive running
Quiescent ==
    /\ main.pc = "done"
    /\ \A r \in Routers :
        inflight[r] = EmptyBag /\ waiting[r] = EmptyBag /\ rcv[r] = Idle

\* every table holds the true shortest cost to every reachable destination
Converged ==
    \A r \in Routers : \A d \in Routers :
        Reachable(r, d) =>
            Has(dv[r], names[d]) /\ Get(dv[r], names[d]).cost = ShortestCost(r, d)

-----------------------------------------------------------------------------
(* Properties *)

\* Router.dvr_start has returned for Router r
Started(r) == main.i > r \/ (main.i = r /\ main.pc = "done")

\* C1: once every datagram has been delivered and every thread has ended,
\* every table holds, for every destination reachable in the static graph,
\* the true shortest-path cost.  (A table can change no more from there on,
\* so this is what "eventually and forever after" comes to.)
C1_ShortestCostsAtQuiescence == Quiescent => Converged

\* C2: a receive of Router r is inside its relaxation part (link_cost read,
\* entries being compared) only when r's dvr_start has returned, and in r's
\* log the entry of dvr_start comes before every entry made by a receive.
C2_ReceiveAfterStart ==
    \A r \in Routers :
        /\ rcv[r] /= Idle => Started(r)
        /\ \A k \in 1..Len(log[r]) :
              log[r][k] = "receive" => k > 1 /\ log[r][1] = "dvr_start"

\* C2 witness: a datagram reached r before r's start, its thread waits, and
\* r's dvr_start is now at its last line
C2_ArrivedBeforeStart ==
    \E r \in Routers : waiting[r] /= EmptyBag /\ main.i = r /\ main.pc = "notify"

\* C3: while a receive iterates over a received table, the table it reads is
\* the sender's table as it was when the datagram was sent.
C3_DatagramIsValueCopy ==
    \A r \in Routers : rcv[r].pc = "loop" => ReceivedDv(r) = rcv[r].data.snap

\* a thread is about to write Router s's table: dvr_start before
\* _find_neighbors, or a receive of s whose next entry passes the test of
\* line 100
Writing(s) ==
    \/ main.i = s /\ main.pc = "neighbors"
    \/ /\ rcv[s].pc = "loop"
       /\ ~Raises(s)
       /\ HasItem(s)
       /\ Improves(dv[s], Item(s).node, rcv[s].link_cost + Item(s).cost)

\* a receive of Router r is in the middle of reading Router s's table
Reading(r, s) ==
    /\ rcv[r].pc = "loop"
    /\ rcv[r].data.ref = s
    /\ rcv[r].idx > 0

\* C4: no Router's table is being read by one thread while another thread is
\* writing it.
C4_NoReadWhileWritten ==
    \A r \in Routers : \A s \in Routers : ~(Reading(r, s) /\ Writing(s))

\* the entry of Router r's table for its own identifier is (0, None)
SelfEntry(r) ==
    /\ Has(dv[r], names[r])
    /\ Get(dv[r], names[r]).cost = 0
    /\ Get(dv[r], names[r]).hop = None

\* C5: once a Router's dvr_start has returned, its table maps its own
\* identifier to (0, None), in every state from then on.
C5_SelfEntryKept == \A r \in Routers : Started(r) => SelfEntry(r)

\* C5 witness: a receive of r has just processed an advertised entry for r's
\* own identifier
C5_SelfAdvertised ==
    \E r \in Routers :
        /\ rcv[r].pc = "loop"
        /\ rcv[r].idx > 0
        /\ rcv[r].idx <= Len(ReceivedDv(r))
        /\ ReceivedDv(r)[rcv[r].idx].node = names[r]
        /\ SelfEntry(r)

\* C6: every step leaves every existing entry of every table in place, with
\* a cost equal to or smaller than before.
C6_CostsNeverIncrease ==
    [][\A r \in Routers : \A k \in 1..Len(dv[r]) :
          /\ Has(dv'[r], dv[r][k].node)
          /\ Get(dv'[r], dv[r][k].node).cost <= dv[r][k].cost]_vars

\* C6 witness: a Router records, for a direct neighbour, a cost below the cost
\* of the link that seeded the entry
C6_CostLowered ==
    \E r \in Routers : \E j \in Routers :
        /\ HasLink(r, j)
        /\ Has(dv[r], names[j])
        /\ Get(dv[r], names[j]).cost < LinkCost(r, j)

\* the step is one taken by the receive that runs at Router r
StepOfReceive(r) == rcv[r].pc = "loop" /\ rcv'[r] /= rcv[r]

\* C7: a receive starts with nothing marked as changed; an entry whose
\* destination is known and whose link_cost + cost is not below the local
\* cost (ties included) leaves the table and the changed mark as they are and
\* sends nothing; and a receive that ends with nothing marked sends nothing,
\* logs nothing and leaves every table as it is.
C7_NonImprovingIsNoOp ==
    [][\A r \in Routers :
          /\ (rcv[r].pc /= "loop" /\ rcv'[r].pc = "loop") => ~rcv'[r].changed
          /\ (StepOfReceive(r) /\ ~Raises(r) /\ HasItem(r)
                /\ Has(dv[r], Item(r).node)
                /\ rcv[r].link_cost + Item(r).cost >= Get(dv[r], Item(r).node).cost)
             => /\ dv' = dv
                /\ rcv'[r].changed = rcv[r].changed
                /\ inflight' = inflight /\ sent' = sent
          /\ (StepOfReceive(r) /\ ~Raises(r) /\ ~HasItem(r) /\ ~rcv[r].changed)
             => dv' = dv /\ inflight' = inflight /\ sent' = sent /\ log' = log]_vars

\* C7 witness: a receive has gone through a whole advertisement, one entry of
\* which was a tie, with nothing marked as changed, and is about to end
C7_NonImprovingProcessed ==
    \E r \in Routers :
        /\ rcv[r].pc = "loop" /\ ~Raises(r) /\ ~HasItem(r)
        /\ ~rcv[r].changed
        /\ \E k \in 1..rcv[r].idx :
              /\ Has(dv[r], ReceivedDv(r)[k].node)
              /\ rcv[r].link_cost + ReceivedDv(r)[k].cost
                   = Get(dv[r], ReceivedDv(r)[k].node).cost

\* C8: every run comes to a state with no thread left and no datagram in
\* flight, and stays there: no table changes and nothing is sent again.
C8_Quiescence == <>[]Quiescent

\* C8 witness: quiescence after tables changed and were re-broadcast
C8_QuietAfterTraffic == Quiescent /\ \E r \in Routers : Len(log[r]) > 1

\* a table as a mapping, whatever the order of insertion
Entries(t) == {<<t[k].node, t[k].cost, t[k].hop>> : k \in 1..Len(t)}

Other(r) == 3 - r

\* C10: in the network of two Routers, no Router calls send on its link more
\* than once, no receive marks or logs a change, from the end of its
\* dvr_start on a Router's table is {self: (0, None), other: (5, other)}, and
\* at quiescence each Router has sent exactly once.
C10_PairOneBroadcastEach ==
    \A r \in Routers :
        /\ sent[r][1] <= 1
        /\ rcv[r].pc = "loop" => ~rcv[r].changed
        /\ \A k \in 1..Len(log[r]) : log[r][k] = "dvr_start"
        /\ Started(r) =>
              Entries(dv[r]) = {<<names[r], 0, None>>,
                                <<names[Other(r)], 5, names[Other(r)]>>}
        /\ Quiescent => sent[r][1] = 1

\* C10 witness: the network of two at quiescence, both advertisements
\* delivered and processed
C10_PairQuiescent ==
    Quiescent /\ \A r \in Routers : sent[r][1] = 1 /\ errors[r] = {}

\* C11: no thread ends in an exception: no receive finds the datagram's sender
\* missing from the local table (KeyError at line 93) and no iteration over a
\* received table is cut short (RuntimeError at line 96).
C11_NoRuntimeError == \A r \in Routers : errors[r] = {}

\* the arguments break a rule of the constructor's interface: the cost list
\* is not one cost per unordered pair of nodes, a name occurs twice, or a cost
\* is zero or negative
Malformed(node_names, costs) ==
    \/ 2 * Len(costs) /= Len(node_names) * (Len(node_names) - 1)
    \/ \E i \in 1..Len(node_names) : \E j \in 1..Len(node_names) :
          i /= j /\ node_names[i] = node_names[j]
    \/ \E k \in 1..Len(costs) : costs[k] /= NoCost /\ costs[k][1] <= 0

\* C12: the constructor called with malformed arguments ends in an error: it
\* never comes to the point where Routers and Links exist and dvr_start can
\* be called.
C12_MalformedRejected ==
    Malformed(main.node_names, main.costs) => main.pc /= "enter"

\* the place of the pair (i, j), i < j, among the 2-combinations of n nodes
\* in lexicographic order
PairIndex(i, j, n) == (i - 1) * n - (i * (i - 1)) \div 2 + (j - i)

\* the Links of Router i whose destination is Router j
LinksTo(i, j) == {k \in 1..Len(links[i]) : links[i][k].dest = j}

\* C13: the Network built from a well-formed (node_names, costs) has, for
\* the i-th 2-combination (a, b) of the node list, when the i-th cost is a
\* cost c, exactly one Link from a to b and one from b to a, both of cost c,
\* and when it is None no Link between a and b in either direction; no Router
\* has a Link to itself.
C13_LinksFollowPairing ==
    (main.pc = "enter" /\ ~Malformed(main.node_names, main.costs)) =>
        \A i \in Routers : \A j \in Routers :
            /\ i = j => LinksTo(i, j) = {}
            /\ i < j =>
                 IF main.costs[PairIndex(i, j, Len(names))] /= NoCost
                 THEN /\ Cardinality(LinksTo(i, j)) = 1
                      /\ Cardinality(LinksTo(j, i)) = 1
                      /\ LinkCost(i, j) = main.costs[PairIndex(i, j, Len(names))][1]
                      /\ LinkCost(j, i) = main.costs[PairIndex(i, j, Len(names))][1]
                 ELSE LinksTo(i, j) = {} /\ LinksTo(j, i) = {}

\* C13 witness: Network(['A','B','C'], [1, None, MaxCost]) is built: A-B of
\* cost 1 and B-C of cost MaxCost in both directions, nothing between A and C
C13_BuiltWithGap ==
    /\ main.pc = "enter"
    /\ main.node_names = <<"A", "B", "C">>
    /\ main.costs = <<Cost(1), NoCost, Cost(MaxCost)>>
    /\ LinkCost(1, 2) = 1 /\ LinkCost(2, 1) = 1
    /\ LinkCost(2, 3) = MaxCost /\ LinkCost(3, 2) = MaxCost
    /\ ~HasLink(1, 3) /\ ~HasLink(3, 1)

\* a receive thread is suspended in wait(), its Router not yet initialized
SomeWaiting == \E r \in Routers : waiting[r] /= EmptyBag

\* a thread is kept out of a with-block by the thread that owns the lock
SomeBlocked ==
    \/ main.pc = "enter" /\ ~Acquirable(main.i)
    \/ \E r \in Routers : inflight[r] /= EmptyBag /\ ~Acquirable(r)

\* C14: when the schedule is fair, a state in which a receive is suspended in
\* wait() for its Router's initialization, or a thread is kept waiting for a
\* Router's lock, is followed by a state in which every thread has been let
\* through and has run to its end: nothing waits forever.
C14_NoIndefiniteSuspension == (SomeWaiting \/ SomeBlocked) ~> Quiescent

\* C14 witness: a receive is suspended in wait() at one Router while, at
\* another, a thread is kept out by the receive that holds the lock
C14_SuspendedAndBlocked ==
    \E r \in Routers : \E q \in Routers :
        /\ waiting[r] /= EmptyBag
        /\ rcv[q].pc = "loop" /\ inflight[q] /= EmptyBag

\* C15: in every receive, the link_cost added to the advertised costs is the
\* cost of the direct Link between the receiving Router and the sender of the
\* datagram, in either direction.
C15_LinkCostIsDirectLink ==
    \A r \in Routers :
        rcv[r].pc = "loop" =>
            /\ HasLink(r, rcv[r].data.ref)
            /\ rcv[r].link_cost = LinkCost(r, rcv[r].data.ref)
            /\ rcv[r].link_cost = LinkCost(rcv[r].data.ref, r)

\* the step ends the receive that runs at Router r
EndOfReceive(r) == rcv[r].pc = "loop" /\ rcv'[r] = Idle

\* C16: a receive that has changed an entry of the local table ends with one
\* more send on every outgoing Link of its Router, each of a datagram with
\* the Router's name and its table as the receive leaves it; and while the
\* receive goes on, entry by entry, nothing is sent.
C16_ChangeBroadcastOnce ==
    [][\A r \in Routers :
          /\ (EndOfReceive(r) /\ rcv[r].changed) =>
                \A k \in 1..Len(links[r]) :
                    /\ sent'[r][k] = sent[r][k] + 1
                    /\ \E d \in BagToSet(inflight'[links[r][k].dest]) :
                          d.sender = names[r] /\ d.snap = dv'[r]
          /\ (rcv[r].pc = "loop" /\ rcv'[r].pc = "loop") => sent'[r] = sent[r]]_vars

\* the table a Router has when its dvr_start returns: itself at (0, None) and
\* every neighbour at the cost of the Link to it, reached through itself
StartTable(r) ==
    {<<names[r], 0, None>>}
        \cup {<<names[links[r][k].dest], links[r][k].cost, names[links[r][k].dest]>> :
                 k \in 1..Len(links[r])}

\* the datagrams of bag b that Router r has sent
SentBy(b, r) == {d \in BagToSet(b) : d.ref = r}

\* C17: the step that ends the broadcast of Router r's dvr_start leaves, in
\* flight to every neighbour, exactly one datagram from r, which carries r's
\* table of start, and none to any other Router; the step that ends r's
\* dvr_start finds r's table made of its own entry and one entry per Link,
\* one send made on every Link, and that dvr_start is the only one r's log
\* ever shows; a Router whose dvr_start has returned stays initialized.
C17_StartPostcondition ==
    [][/\ (main.pc = "broadcast" /\ main'.pc = "notify") =>
            \A q \in Routers :
                IF HasLink(main.i, q)
                THEN /\ Cardinality(SentBy(inflight'[q], main.i)) = 1
                     /\ \A d \in SentBy(inflight'[q], main.i) :
                           /\ CopiesIn(d, inflight'[q]) = 1
                           /\ d.sender = names[main.i]
                           /\ Entries(d.snap) = StartTable(main.i)
                ELSE SentBy(inflight'[q], main.i) = {}
       /\ (main.pc = "notify" /\ main' /= main) =>
            /\ Initialized(main.i)
            /\ Entries(dv'[main.i]) = StartTable(main.i)
            /\ Len(dv'[main.i]) = 1 + Len(links[main.i])
            /\ \A k \in 1..Len(links[main.i]) : sent'[main.i][k] = 1
            /\ log'[main.i] = <<"dvr_start">>
       /\ \A r \in Routers :
            /\ Initialized(r) => Initialized(r)'
            /\ Cardinality({k \in 1..Len(log'[r]) : log'[r][k] = "dvr_start"}) <= 1]_vars

\* C17 witness: the dvr_start of a Router with two Links has returned, and
\* the Router has its table of start and has sent once on each Link
C17_StartedWithTwoLinks ==
    \E r \in Routers :
        /\ Started(r)
        /\ Len(links[r]) = 2
        /\ Entries(dv[r]) = StartTable(r)
        /\ sent[r] = <<1, 1>>
        /\ log[r] = <<"dvr_start">>

\* the datagrams on their way to Router q's receive: their threads sleep, or
\* are kept out by the lock, or wait for q's initialization
Pending(q) == inflight[q] (+) waiting[q]

\* the link.send calls the step makes on Links that lead to Router q
SendsTo(q) ==
    {ik \in Routers \X Routers :
        /\ ik[2] <= Len(links[ik[1]])
        /\ links[ik[1]][ik[2]].dest = q
        /\ sent'[ik[1]][ik[2]] = sent[ik[1]][ik[2]] + 1}

\* the step takes a datagram into the relaxation part of Router q's receive
Taken(q) == rcv[q] = Idle /\ rcv'[q] /= Idle

\* C18: every step keeps the account of the datagrams: at each Router q, the
\* datagrams on their way to q grow by one for every send made on a Link
\* that leads to q and shrink by one when q's receive takes one, and in no
\* other way (none lost, none doubled); the one taken was on its way to q;
\* whatever is on its way to q was sent on a Link that leads to q; and a
\* step that sends takes no neighbour's lock and enters no receive (send
\* returns before delivery).
C18_DeliveredExactlyOnce ==
    [][\A q \in Routers :
          /\ BagCardinality(Pending(q)') + (IF Taken(q) THEN 1 ELSE 0)
                = BagCardinality(Pending(q)) + Cardinality(SendsTo(q))
          /\ Taken(q) => /\ BagIn(rcv'[q].data, Pending(q))
                         /\ Pending(q)' = Pending(q) (-) SetToBag({rcv'[q].data})
          /\ \A d \in BagToSet(Pending(q)') : HasLink(d.ref, q)
          /\ SendsTo(q) /= {} =>
                /\ ~Taken(q) /\ lock'[q] = lock[q]
                /\ \A ik \in SendsTo(q) :
                      \E d \in BagToSet(inflight'[q]) :
                          d.ref = ik[1] /\ d.snap = dv'[ik[1]]]_vars

\* C18 witness: dvr_start has just broadcast while a neighbour's lock was
\* held by a receive; the datagram for that neighbour is on its way
C18_SentToBusyNeighbour ==
    /\ main.pc = "notify"
    /\ \E q \in Routers :
          /\ HasLink(main.i, q)
          /\ lock[q] = "recv"
          /\ SentBy(inflight[q], main.i) /= {}

\* C19: once no thread is left, every entry (c, h) of a Router r's table for
\* a destination other than r names as h a direct neighbour of r, and c is
\* the cost of the Link from r to h plus the cost that h's table records for
\* the destination.
C19_NextHopConsistent ==
    Quiescent =>
        \A r \in Routers : \A k \in 1..Len(dv[r]) :
            dv[r][k].node /= names[r] =>
                \E h \in Routers :
                    /\ names[h] = dv[r][k].hop
                    /\ HasLink(r, h)
                    /\ Has(dv[h], dv[r][k].node)
                    /\ dv[r][k].cost = LinkCost(r, h) + Get(dv[h], dv[r][k].node).cost

\* C20: in every state, every entry of every Router r's table is for a node
\* of the network that r can reach in the static graph, at a cost not below
\* the cost of the shortest path from r to it.
C20_NoUnderestimation ==
    \A shortest \in {ShortestCosts} : \A infinity \in {Infinity} :
        \A r \in Routers : \A k \in 1..Len(dv[r]) :
            \E d \in Routers :
                /\ names[d] = dv[r][k].node
                /\ shortest[r][d] < infinity
                /\ dv[r][k].cost >= shortest[r][d]

\* C20 witness: a table holds an entry learned from an advertisement (its
\* next hop is not the destination) whose cost is that of the shortest path
C20_LearnedShortest ==
    \E r \in Routers : \E d \in Routers :
        /\ Has(dv[r], names[d])
        /\ Get(dv[r], names[d]).hop \notin {None, names[d]}
        /\ Get(dv[r], names[d]).cost = ShortestCost(r, d)

=============================================================================
